---- MODULE Spec2Model ----
(***************************************************************************)
(* A model of twobotschat: the Turn Orchestrator (orchestrator.py), the    *)
(* prompt builder (agents.py) and the boundary of the streaming chat       *)
(* client (ollama_client.py).                                              *)
(*                                                                         *)
(* Python values are modelled as follows.                                  *)
(*   None / Optional[x]   <<>> for None, <<x>> for a present value         *)
(*   a JSON value         a record [t, s, n, l]: type tag, string payload, *)
(*                        integer payload, list payload; a float carries   *)
(*                        its integer part in n and "finite", "inf" or     *)
(*                        "nan" in s                                       *)
(*   a response text      a record [decodes, isobj, fields]: whether       *)
(*                        json.loads accepts it, whether the decoded value *)
(*                        is an object, and the object's fields            *)
(*   a formatted string   a record [msg, arg]: the template and the value  *)
(*                        substituted into it                              *)
(* The entry's timestamp is left out: no code reads it.                    *)
(***************************************************************************)
EXTENDS Integers, Sequences, FiniteSets, TLC

(* ------------------------------ bounds --------------------------------- *)

\* The largest max_turns a run is configured with.
MaxTurns == 2

\* The largest stable_rounds a run is configured with.
MaxStable == 2

\* The summary_keep_last a run is configured with.
KeepLast == 2

\* The summary_max_points a run is configured with.
MaxPoints == 2

\* The largest number of lines a streamed response yields.
MaxLines == 3

\* The largest number of Context entries a call of
\* _summarize_and_trim_context followed on its own finds.
MaxContext == 4

(* ------------------------- program constants --------------------------- *)

\* --min-sat default
DefaultMinSat == 95

(* --------------------------- Python values ----------------------------- *)

None == <<>>

Some(x) == <<x>>

Get(o) == o[1]

JStr(str) == [t |-> "str", s |-> str, n |-> 0, l |-> <<>>]

JInt(num) == [t |-> "int", s |-> "", n |-> num, l |-> <<>>]

\* a float: json.loads reads 1e999 and Infinity as inf, NaN as nan
JFloat(class, intPart) == [t |-> "float", s |-> class, n |-> intPart, l |-> <<>>]

JNull == [t |-> "null", s |-> "", n |-> 0, l |-> <<>>]

\* a list whose items are the flat values of seq
JList(seq) == [t |-> "list", s |-> "", n |-> 0, l |-> seq]

\* a list item that is a string
IStr(str) == [t |-> "str", s |-> str, n |-> 0]

\* a list item that is a number
IInt(num) == [t |-> "int", s |-> "", n |-> num]

\* true and false: int(True) is 1
JBool(b) == [t |-> "bool", s |-> "", n |-> IF b THEN 1 ELSE 0, l |-> <<>>]

\* f"...{arg}"
Fmt(msg, arg) == [msg |-> msg, arg |-> arg]

\* Agent B speaks first
AgentNamesSwapped == <<"Agent B", "Agent A">>

AgentNames == <<"Agent A", "Agent B">>

(* ------------------------- _parse_output ------------------------------- *)

required == <<"reply_zh_tw", "satisfaction", "key_points", "needs_from_other">>

\* raised is "" when _parse_output returns
ParseResult(data, error) == [data |-> data, error |-> error, raised |-> ""]

\* _parse_output does not return: exc leaves it
ParseRaises(exc) == [data |-> None, error |-> None, raised |-> exc]

\* the decimal strings int() accepts, among the strings the model uses
DecimalLiterals == ("95" :> 95) @@ ("0" :> 0) @@ ("100" :> 100) @@ ("101" :> 101) @@ ("-1" :> -1)

\* int(value): the exception raised ("" when none) and the integer
IntOf(v) ==
    CASE v.t = "int" -> [exc |-> "", n |-> v.n]
      [] v.t = "bool" -> [exc |-> "", n |-> v.n]
      [] v.t = "float" ->
            IF v.s = "finite" THEN [exc |-> "", n |-> v.n]
            ELSE IF v.s = "nan" THEN [exc |-> "ValueError", n |-> 0]
            ELSE [exc |-> "OverflowError", n |-> 0]
      [] v.t = "str" ->
            IF v.s \in DOMAIN DecimalLiterals
            THEN [exc |-> "", n |-> DecimalLiterals[v.s]]
            ELSE [exc |-> "ValueError", n |-> 0]
      [] OTHER -> [exc |-> "TypeError", n |-> 0]

\* the last missing key is named
LastMissing(fields) ==
    required[CHOOSE i \in 1..Len(required) :
                /\ required[i] \notin DOMAIN fields
                /\ \A j \in (i + 1)..Len(required) : required[j] \in DOMAIN fields]

FirstMissing(fields) ==
    required[CHOOSE i \in 1..Len(required) :
                /\ required[i] \notin DOMAIN fields
                /\ \A j \in 1..(i - 1) : required[j] \in DOMAIN fields]

IsListOfStr(v) == v.t = "list" /\ \A i \in 1..Len(v.l) : v.l[i].t = "str"

\* the upper bound is off by one
SatisfactionOutOfRangeLax(satisfaction) == satisfaction < 0 \/ satisfaction > 101

SatisfactionOutOfRange(satisfaction) == satisfaction < 0 \/ satisfaction > 100

ParseOutput(text) ==
    IF ~text.decodes
    THEN ParseResult(None, Some(Fmt("JSONDecodeError", "")))
    ELSE IF ~text.isobj
    THEN ParseResult(None, Some(Fmt("JSON is not an object.", "")))
    ELSE IF \E i \in 1..Len(required) : required[i] \notin DOMAIN text.fields
    THEN ParseResult(None, Some(Fmt("Missing key: ", FirstMissing(text.fields))))
    ELSE IF text.fields["reply_zh_tw"].t # "str"
    THEN ParseResult(None, Some(Fmt("reply_zh_tw must be string.", "")))
    ELSE IF text.fields["needs_from_other"].t # "str"
    THEN ParseResult(None, Some(Fmt("needs_from_other must be string.", "")))
    ELSE IF ~IsListOfStr(text.fields["key_points"])
    THEN ParseResult(None, Some(Fmt("key_points must be list[str].", "")))
    ELSE LET c == IntOf(text.fields["satisfaction"]) IN
         IF c.exc \in {"TypeError", "ValueError"}
         THEN ParseResult(None, Some(Fmt("satisfaction must be int 0-100.", "")))
         ELSE IF c.exc # ""
         THEN ParseRaises(c.exc)
         ELSE IF SatisfactionOutOfRange(c.n)
         THEN ParseResult(None, Some(Fmt("satisfaction out of range.", "")))
         ELSE ParseResult(
                Some([text.fields EXCEPT !["satisfaction"] = JInt(c.n)]),
                None)

\* the frame of a _parse_output call: its argument, what it returned, and the
\* same for the call on the re-serialised record
ParseFrame(pc_, text) ==
    [pc |-> pc_, text |-> text, result |-> ParseRaises(""),
     dumped |-> None, again |-> ParseRaises("")]

\* no call of _parse_output is being followed on its own
NoParse == ParseFrame("idle", [decodes |-> FALSE, isobj |-> FALSE, fields |-> <<>>])

\* Python truthiness of an Optional[str] and of an Optional[dict]
TruthyStr(o) == o # None /\ Get(o) # Fmt("", "")

TruthyDict(o) == o # None /\ DOMAIN Get(o) # {}

(* ------------------- _summarize_and_trim_context ----------------------- *)

Max(a, b) == IF a >= b THEN a ELSE b

\* seq[-k:] for k > 0
LastN(seq, k) == SubSeq(seq, Max(1, Len(seq) - k + 1), Len(seq))

\* seq[:-k] for k > 0
DropLastN(seq, k) == SubSeq(seq, 1, Len(seq) - k)

\* the strings of a decoded list[str]
StrsOf(items) == [i \in 1..Len(items) |-> items[i].s]

\* parsed.get("key_points") or entry.get("key_points") or []
KeyPointsOf(entry) ==
    LET parsed == IF TruthyDict(entry.parsed) THEN Get(entry.parsed) ELSE <<>>
        fromParsed == IF "key_points" \in DOMAIN parsed
                      THEN StrsOf(parsed["key_points"].l) ELSE <<>>
        fromEntry == IF entry.key_points # None THEN Get(entry.key_points) ELSE <<>>
    IN  IF fromParsed # <<>> THEN fromParsed ELSE fromEntry

\* parsed.get("reply_zh_tw") or ""
ReplyOf(entry) ==
    LET parsed == IF TruthyDict(entry.parsed) THEN Get(entry.parsed) ELSE <<>>
    IN  IF "reply_zh_tw" \in DOMAIN parsed THEN parsed["reply_zh_tw"].s ELSE ""

\* what one older entry adds to points (lines 165-174)
PointsOfEntry(entry) ==
    IF TruthyStr(entry.parse_error) THEN <<>>
    ELSE IF KeyPointsOf(entry) # <<>> THEN KeyPointsOf(entry)
    ELSE IF ReplyOf(entry) # "" THEN <<ReplyOf(entry)>>
    ELSE <<>>

RECURSIVE CollectPoints(_)
CollectPoints(older) ==
    IF older = <<>> THEN <<>>
    ELSE PointsOfEntry(Head(older)) \o CollectPoints(Tail(older))

\* the first points are kept, not the last
TruncatePointsFirst(points, maxPoints) ==
    IF maxPoints > 0 THEN SubSeq(points, 1, IF maxPoints < Len(points) THEN maxPoints ELSE Len(points))
    ELSE points

\* points[-summary_max_points:] when summary_max_points > 0
TruncatePoints(points, maxPoints) ==
    IF maxPoints > 0 THEN LastN(points, maxPoints) ELSE points

\* "\n".join(f"- {p}" for p in points): one bulleted line per point
RenderSummary(points) == [i \in 1..Len(points) |-> Fmt("- ", points[i])]

SummarizeAndTrimContext(ctx, keepLast, maxPoints) ==
    IF ctx = <<>> THEN [summary |-> None, recent |-> <<>>]
    ELSE LET keep == Max(0, keepLast)
             recent == IF keep = 0 THEN <<>> ELSE LastN(ctx, keep)
             older == IF keep = 0 THEN ctx ELSE DropLastN(ctx, keep)
             points == CollectPoints(older)
         IN  IF older = <<>> THEN [summary |-> None, recent |-> recent]
             ELSE IF points = <<>> THEN [summary |-> None, recent |-> recent]
             ELSE [summary |-> Some(RenderSummary(TruncatePoints(points, maxPoints))),
                   recent |-> recent]

\* the frame of a _summarize_and_trim_context call: self.context,
\* self.summary_keep_last and self.summary_max_points as it finds them, and the
\* pair it returned
SummaryFrame(pc_, ctx, keepLast, maxPoints) ==
    [pc |-> pc_, context |-> ctx, summary_keep_last |-> keepLast,
     summary_max_points |-> maxPoints, summary |-> None, recent |-> <<>>]

\* no call of _summarize_and_trim_context is being followed on its own
NoSummary == SummaryFrame("idle", <<>>, 0, 0)

(* --------------------------- build_messages ---------------------------- *)

NoText == [decodes |-> FALSE, isobj |-> FALSE, fields |-> <<>>]

\* one role-tagged message: kind says which content it carries
Message(role, kind, who, warn, text, bullets) ==
    [role |-> role, kind |-> kind, who |-> who, warn |-> warn,
     text |-> text, bullets |-> bullets]

\* the directive build_messages adds when strict_json is set
StrictDirective == Message("system", "strict_json", "", FALSE, NoText, <<>>)

StrictPart(strict_json) == IF strict_json THEN <<StrictDirective>> ELSE <<>>

\* lines 85-94: one message per entry of the recent tail
RenderEntry(agentName, entry) ==
    IF entry.agent = agentName
    THEN Message("assistant", "own", entry.agent, FALSE, entry.raw_output, <<>>)
    ELSE Message("user", "other", entry.agent, TruthyStr(entry.parse_error),
                 entry.raw_output, <<>>)

InitialUserMessage == Message("user", "initial_user_prompt", "", FALSE, NoText, <<>>)

BuildMessages(agentName, recent, strict_json, summary, topicText) ==
    <<Message("system", "system_prompt", agentName, FALSE, NoText, <<>>)>>
    \o StrictPart(strict_json)
    \o (IF topicText # "" THEN <<Message("system", "topic", "", FALSE, NoText, <<>>)>>
        ELSE <<>>)
    \o (IF summary # None /\ Get(summary) # <<>>
        THEN <<Message("system", "summary", "", FALSE, NoText, Get(summary))>>
        ELSE <<>>)
    \o (IF recent = <<>> THEN <<InitialUserMessage>>
        ELSE [i \in 1..Len(recent) |-> RenderEntry(agentName, recent[i])])

(* --------------------------- OllamaClient.chat ------------------------- *)

\* a str as the sequence of its characters
EmptyStr == <<>>

\* the value under "content": a str, null or a number
Content(t, s) == [t |-> t, s |-> s]

\* content's default in .get("content", "")
DefaultContent == Content("str", EmptyStr)

\* the value under "message" or "delta": a dict (with or without "content") or
\* some other JSON value
Holder(isdict, content) == [isdict |-> isdict, content |-> content]

\* the {} default of .get("message", {}) and .get("delta", {})
EmptyHolder == Holder(TRUE, None)

\* an element of "choices": a dict (with or without "delta") or some other value
Choice(isdict, delta) == [isdict |-> isdict, delta |-> delta]

\* the [{}] default of .get("choices", [{}])
DefaultChoices == <<Choice(TRUE, None)>>

\* what json.loads gives for a line: shape is the JSON type; for a dict, each
\* of "error", "message", "choices" is None when the key is absent, and done is
\* the truth of .get("done")
LineData(shape, error, message, choices, done) ==
    [shape |-> shape, error |-> error, message |-> message,
     choices |-> choices, done |-> done]

NoData == LineData("none", None, None, None, FALSE)

\* a line of the response: prefixed when it starts with "data:"; what follows
\* the prefix (the whole line when not prefixed) is "empty", the "[DONE]"
\* sentinel, "garbage" that is not JSON, or "json" decoding to data
Line(prefixed, kind, data) == [prefixed |-> prefixed, kind |-> kind, data |-> data]

\* a line that is not JSON is skipped like an empty one
SkipsUndecodable(line) == ~line.prefixed /\ line.kind \in {"empty", "garbage"}

\* `if not line`
IsEmptyLine(line) == ~line.prefixed /\ line.kind = "empty"

\* line = line[len("data:"):].strip() under the fallback dialect
StripPrefix(line, using_openai) ==
    IF using_openai /\ line.prefixed THEN Line(FALSE, line.kind, line.data) ELSE line

\* `if line == "[DONE]"` inside the prefix branch
IsDoneSentinel(line, using_openai) ==
    using_openai /\ line.prefixed /\ line.kind = "sentinel"

\* json.loads(line) returns: the text, prefix included, is a JSON document
Decodes(line) == ~line.prefixed /\ line.kind = "json"

\* `"error" in data`: the exception it raises, "" when it evaluates
ErrorTestRaises(data) ==
    IF data.shape \in {"dict", "str", "list"} THEN "" ELSE "TypeError"

\* an error field is not looked at
ErrorTestIgnored(data) == FALSE

ErrorTest(data) == data.shape = "dict" /\ data.error # None

\* chunk under either dialect: [exc, chunk], exc the exception raised on the way
ChunkResult(exc, chunk) == [exc |-> exc, chunk |-> chunk]

ContentOf(holder) ==
    IF ~holder.isdict THEN ChunkResult("AttributeError", DefaultContent)
    ELSE IF holder.content = None THEN ChunkResult("", DefaultContent)
    ELSE ChunkResult("", Get(holder.content))

ChunkOf(data, using_openai) ==
    IF data.shape # "dict" THEN ChunkResult("AttributeError", DefaultContent)
    ELSE IF using_openai
    THEN LET choices == IF data.choices = None THEN DefaultChoices
                        ELSE Get(data.choices)
         IN  IF choices = <<>> THEN ChunkResult("IndexError", DefaultContent)
             ELSE IF ~choices[1].isdict
             THEN ChunkResult("AttributeError", DefaultContent)
             ELSE ContentOf(IF choices[1].delta = None THEN EmptyHolder
                            ELSE Get(choices[1].delta))
    ELSE ContentOf(IF data.message = None THEN EmptyHolder ELSE Get(data.message))

\* every chunk but null is taken, the empty string included
TruthyChunkAny(chunk) == chunk.t # "null"

\* `if chunk`
TruthyChunk(chunk) ==
    \/ chunk.t = "str" /\ chunk.s # EmptyStr
    \/ chunk.t = "int"

\* done ends the loop under either dialect
DoneEverywhere(data, using_openai) == data.done

\* `if not using_openai and data.get("done")`
DoneBreaks(data, using_openai) == ~using_openai /\ data.done

\* response.raise_for_status() raises: a 4xx or 5xx status
RaiseForStatus(status) == status >= 400 /\ status < 600

\* the fallback is tried after every error status
FallbackOnAnyError(status) == status >= 400

\* `if response.status_code == 404`
FallbackNeeded(status) == status = 404

\* the two request bodies
PrimaryUrl == "/api/chat"

FallbackUrl == "/v1/chat/completions"

Request(url, model, msgs, options, merged) ==
    [url |-> url, model |-> model, messages |-> msgs, stream |-> TRUE,
     options |-> options, merged |-> merged]

TruthyOptions(options) == options # None /\ Get(options) # {}

PrimaryRequest(model, msgs, options) ==
    Request(PrimaryUrl, model, msgs,
            IF TruthyOptions(options) THEN options ELSE None, None)

FallbackRequest(model, msgs, options) ==
    Request(FallbackUrl, model, msgs, None,
            IF TruthyOptions(options) THEN options ELSE None)

\* the frame of chat: its arguments, its locals and how it ended
ChatFrame(pc_, msgs, options, on_chunk) ==
    [pc |-> pc_, messages |-> msgs, options |-> options, on_chunk |-> on_chunk,
     requests |-> <<>>, status |-> 0, using_openai |-> FALSE, stream |-> <<>>,
     full_text |-> EmptyStr, raw_lines |-> <<>>, callbacks |-> <<>>, exc |-> "",
     exc_arg |-> None]

\* no call of chat is being followed
NoCall == ChatFrame("idle", <<>>, None, FALSE)

(* ------------------------- Orchestrator state -------------------------- *)

VARIABLES
    max_turns,          \* configuration, fixed by __init__
    min_satisfaction,
    stable_rounds,
    summary_keep_last,
    summary_max_points,
    topic,
    transcript,         \* self.transcript
    context,            \* self.context
    turn,               \* run: the loop variable (0 before the first round)
    agent_idx,          \* run: index in ["Agent A", "Agent B"] of the agent speaking
    attempt,            \* _run_agent_turn: the loop variable
    stable_count,       \* run
    stop_reason,        \* run
    last_valid,         \* run: agent name -> Optional[entry]
    pc,                 \* where the single thread of control is
    messages,           \* the prompt of the call in flight
    outstanding,        \* number of client.chat calls that have not returned
    calls,              \* number of client.chat calls issued so far
    file,               \* the transcript file: None until written
    writes,             \* number of times _write_transcript ran
    report,             \* what _print_final_report printed: None until printed
    chat,               \* OllamaClient.chat: the frame of the call
    parse_call,         \* _parse_output: the frame of a call followed on its own
    summary_call        \* _summarize_and_trim_context: the same

vars == <<max_turns, min_satisfaction, stable_rounds, summary_keep_last,
          summary_max_points, topic, transcript, context, turn, agent_idx,
          attempt, stable_count, stop_reason, last_valid, pc, messages,
          outstanding, calls, file, writes, report, chat, parse_call,
          summary_call>>

\* the frames of the calls followed on their own
frames == <<chat, parse_call, summary_call>>

config == <<max_turns, min_satisfaction, stable_rounds, summary_keep_last,
            summary_max_points, topic>>

(* ------------------- what the remote service answers ------------------- *)

\* a well-formed answer whose satisfaction meets the default threshold
GoodText ==
    [decodes |-> TRUE, isobj |-> TRUE,
     fields |-> ("reply_zh_tw" :> JStr("r1")) @@ ("satisfaction" :> JInt(DefaultMinSat))
                @@ ("key_points" :> JList(<<IStr("a"), IStr("b")>>))
                @@ ("needs_from_other" :> JStr("n1"))]

\* a well-formed answer whose satisfaction is just below it
LowText ==
    [decodes |-> TRUE, isobj |-> TRUE,
     fields |-> ("reply_zh_tw" :> JStr("r2")) @@ ("satisfaction" :> JInt(DefaultMinSat - 1))
                @@ ("key_points" :> JList(<<IStr("c")>>))
                @@ ("needs_from_other" :> JStr("n2"))]

\* an answer json.loads rejects
BadText == [decodes |-> FALSE, isobj |-> FALSE, fields |-> <<>>]

\* an object with the four fields reply, sat, points, needs
ObjectText(reply, sat, points, needs) ==
    [decodes |-> TRUE, isobj |-> TRUE,
     fields |-> ("reply_zh_tw" :> reply) @@ ("satisfaction" :> sat)
                @@ ("key_points" :> points) @@ ("needs_from_other" :> needs)]

\* JSON that is not an object, such as [1, 2]
NotObjectText == [decodes |-> TRUE, isobj |-> FALSE, fields |-> <<>>]

\* an object without needs_from_other
MissingKeyText ==
    [decodes |-> TRUE, isobj |-> TRUE,
     fields |-> ("reply_zh_tw" :> JStr("r3")) @@ ("satisfaction" :> JInt(DefaultMinSat))
                @@ ("key_points" :> JList(<<>>))]

\* answers around every test of _parse_output
WideTexts ==
    { GoodText, LowText, BadText, NotObjectText, MissingKeyText,
      ObjectText(JStr("r4"), JInt(0), JList(<<>>), JStr("")),
      ObjectText(JStr("r5"), JInt(100), JList(<<IStr("d")>>), JStr("n5")),
      ObjectText(JStr("r6"), JInt(101), JList(<<IStr("e")>>), JStr("n6")),
      ObjectText(JStr("r7"), JInt(-1), JList(<<IStr("f")>>), JStr("n7")),
      ObjectText(JStr("r8"), JStr("95"), JList(<<IStr("g")>>), JStr("n8")),
      ObjectText(JStr("r9"), JNull, JList(<<IStr("h")>>), JStr("n9")),
      ObjectText(JStr("r10"), JInt(DefaultMinSat), JStr("not a list"), JStr("n10")),
      ObjectText(JStr("r11"), JFloat("inf", 0), JList(<<IStr("i")>>), JStr("n11")) }

WideChatResults == {[output |-> t, raw_lines |-> <<"line">>] : t \in WideTexts}

\* the (full_text, raw_lines) pairs client.chat returns
ChatResults ==
    { [output |-> GoodText, raw_lines |-> <<"line1", "line2">>],
      [output |-> LowText, raw_lines |-> <<"line3">>],
      [output |-> BadText, raw_lines |-> <<"line4">>] }

(* ------------------------------- Init ---------------------------------- *)

InitConfig(turnsSet, stableSet, keepSet, pointsSet) ==
    /\ max_turns \in turnsSet
    /\ stable_rounds \in stableSet
    /\ min_satisfaction = DefaultMinSat
    /\ summary_keep_last \in keepSet
    /\ summary_max_points \in pointsSet
    /\ topic = "topic"

InitFrame ==
    /\ transcript = <<>>
    /\ context = <<>>
    /\ turn = 0
    /\ agent_idx = 1
    /\ attempt = 1
    /\ stable_count = 0
    /\ stop_reason = ""
    /\ last_valid = [a \in {"Agent A", "Agent B"} |-> None]
    /\ pc = "loop"
    /\ messages = <<>>
    /\ outstanding = 0
    /\ calls = 0
    /\ file = None
    /\ writes = 0
    /\ report = None

InitRun ==
    /\ InitFrame
    /\ chat = NoCall
    /\ parse_call = NoParse
    /\ summary_call = NoSummary

Init ==
    /\ InitConfig(0..MaxTurns, 1..MaxStable, {KeepLast}, {MaxPoints})
    /\ InitRun

(* ------------------------- _run_agent_turn ----------------------------- *)

AgentName == AgentNames[agent_idx]

\* lines 119-137: the entry recorded for one attempt
MakeEntry(t, agentName, att, res, parse_result) ==
    [turn |-> t,
     agent |-> agentName,
     attempt |-> att,
     raw_output |-> res.output,
     raw_lines |-> res.raw_lines,
     parse_error |-> parse_result.error,
     parsed |-> parse_result.data,
     satisfaction |-> IF TruthyDict(parse_result.data)
                      THEN Some(Get(parse_result.data)["satisfaction"].n) ELSE None,
     key_points |-> IF TruthyDict(parse_result.data)
                    THEN Some(StrsOf(Get(parse_result.data)["key_points"].l)) ELSE None,
     needs_from_other |-> IF TruthyDict(parse_result.data)
                          THEN Some(Get(parse_result.data)["needs_from_other"].s) ELSE None]

\* the directive is asked for on every attempt
StrictJsonAlways(att) == att \in {1, 2}

\* line 99
StrictJson(att) == att = 2

\* the failed first attempt is the one kept for future prompts
FailedFirstGoesToContext(att) == att = 1

\* lines 138-142: a failed attempt goes to Context only when it is attempt 2
FailedGoesToContext(att) == att = 2

\* the attempt after a failed one, 0 when the loop over [1, 2] is over
NextAttempt(att) == IF att = 1 THEN 2 ELSE 0

\* whatever the turn returned is kept, valid or not
UpdateLastValidAny(lv, agentName, parsed_entry) ==
    [lv EXCEPT ![agentName] = Some(parsed_entry)]

\* run, lines 57-58
UpdateLastValid(lv, agentName, parsed_entry) ==
    IF ~TruthyStr(parsed_entry.parse_error)
    THEN [lv EXCEPT ![agentName] = Some(parsed_entry)]
    ELSE lv

\* a failed first attempt is dropped
RecordUnlessRetried(tr, entry) ==
    IF entry.parse_error # None /\ entry.attempt = 1 THEN tr ELSE Append(tr, entry)

\* lines 139 and 144: every attempt that was parsed is recorded
RecordInTranscript(tr, entry) == Append(tr, entry)

\* lines 100-115: compact Context, build the prompt, issue the streaming call
BuildAndSend ==
    /\ pc = "build"
    /\ LET st == SummarizeAndTrimContext(context, summary_keep_last, summary_max_points)
       IN  messages' = BuildMessages(AgentName, st.recent, StrictJson(attempt),
                                     st.summary, topic)
    /\ outstanding' = outstanding + 1
    /\ calls' = calls + 1
    /\ pc' = "chat"
    /\ UNCHANGED <<frames, config, transcript, context, turn, agent_idx, attempt,
                   stable_count, stop_reason, last_valid, file, writes, report>>

\* _run_agent_turn returns entry to run: lines 57-58, then the next agent or
\* the end of the round
ReturnToRun(entry) ==
    /\ last_valid' = UpdateLastValid(last_valid, AgentName, entry)
    /\ IF agent_idx < Len(AgentNames)
       THEN /\ agent_idx' = agent_idx + 1
            /\ attempt' = 1
            /\ pc' = "build"
       ELSE /\ pc' = "eval"
            /\ UNCHANGED <<agent_idx, attempt>>

\* client.chat returns res: lines 116-149. An exception that leaves
\* _parse_output is caught nowhere, so it leaves run as well.
ChatReturn(res) ==
    /\ pc = "chat"
    /\ outstanding' = outstanding - 1
    /\ LET parse_result == ParseOutput(res.output)
           entry == MakeEntry(turn, AgentName, attempt, res, parse_result)
       IN  IF parse_result.raised # ""
           THEN /\ pc' = "raised"
                /\ UNCHANGED <<transcript, context, agent_idx, attempt, last_valid>>
           ELSE
           /\ transcript' = RecordInTranscript(transcript, entry)
           /\ IF TruthyStr(parse_result.error)
              THEN /\ context' = IF FailedGoesToContext(attempt)
                                 THEN Append(context, entry) ELSE context
                   /\ IF NextAttempt(attempt) # 0
                      THEN /\ attempt' = NextAttempt(attempt)
                           /\ pc' = "build"
                           /\ UNCHANGED <<agent_idx, last_valid>>
                      ELSE ReturnToRun(entry)
              ELSE /\ context' = Append(context, entry)
                   /\ ReturnToRun(entry)
    /\ UNCHANGED <<frames, config, turn, stable_count, stop_reason, messages, calls,
                   file, writes, report>>

\* the error is swallowed and the loop over [1, 2] goes on
ChatRaiseRetried ==
    /\ pc = "chat"
    /\ outstanding' = outstanding - 1
    /\ IF attempt = 1
       THEN attempt' = 2 /\ pc' = "build"
       ELSE attempt' = attempt /\ pc' = "raised"
    /\ UNCHANGED <<frames, config, transcript, context, turn, agent_idx,
                   stable_count, stop_reason, last_valid, messages, calls,
                   file, writes, report>>

\* client.chat raises (requests error, raise_for_status, in-band error record):
\* neither _run_agent_turn nor run catches it, so it leaves run
ChatRaise ==
    /\ pc = "chat"
    /\ outstanding' = outstanding - 1
    /\ pc' = "raised"
    /\ UNCHANGED <<frames, config, transcript, context, turn, agent_idx, attempt,
                   stable_count, stop_reason, last_valid, messages, calls,
                   file, writes, report>>

(* -------------------------------- run ---------------------------------- *)

StabilityReason == "stable_rounds reached"

BudgetReason == "max_turns reached"

\* the loop runs one round too many
BudgetRemainsOneMore(t, maxTurns) == t <= maxTurns

\* line 48: range(1, max_turns + 1) has a value after t
BudgetRemains(t, maxTurns) == t < maxTurns

\* line 48: the loop starts its next round
StartRound ==
    /\ pc = "loop"
    /\ BudgetRemains(turn, max_turns)
    /\ turn' = turn + 1
    /\ agent_idx' = 1
    /\ attempt' = 1
    /\ pc' = "build"
    /\ UNCHANGED <<frames, config, transcript, context, stable_count, stop_reason,
                   last_valid, messages, outstanding, calls, file, writes, report>>

\* line 48: range(1, max_turns + 1) is exhausted
LoopExhausted ==
    /\ pc = "loop"
    /\ ~BudgetRemains(turn, max_turns)
    /\ pc' = "after_loop"
    /\ UNCHANGED <<frames, config, transcript, context, turn, agent_idx, attempt,
                   stable_count, stop_reason, last_valid, messages, outstanding,
                   calls, file, writes, report>>

RECURSIVE LatestValidEntry(_, _)
\* the last entry of agentName that is not a parse failure
LatestValidEntry(tr, agentName) ==
    IF tr = <<>> THEN None
    ELSE IF tr[Len(tr)].agent = agentName /\ ~TruthyStr(tr[Len(tr)].parse_error)
    THEN Some(tr[Len(tr)])
    ELSE LatestValidEntry(SubSeq(tr, 1, Len(tr) - 1), agentName)

RECURSIVE LatestEntry(_, _)
\* _latest_entry: the last entry of agentName, valid or not
LatestEntry(tr, agentName) ==
    IF tr = <<>> THEN None
    ELSE IF tr[Len(tr)].agent = agentName THEN Some(tr[Len(tr)])
    ELSE LatestEntry(SubSeq(tr, 1, Len(tr) - 1), agentName)

\* _get_satisfaction
GetSatisfaction(entry) ==
    IF entry = None \/ TruthyStr(Get(entry).parse_error) THEN None
    ELSE Get(entry).satisfaction

\* line 66
MeetsThreshold(sat, minSat) == sat >= minSat

\* the counter is kept, not reset, when an agent has no valid latest entry
NextStableCountKeeps(count, sat_a, sat_b, minSat) ==
    IF sat_a # None /\ sat_b # None
    THEN IF Get(sat_a) >= minSat /\ Get(sat_b) >= minSat THEN count + 1 ELSE 0
    ELSE count

\* lines 65-71
NextStableCount(count, sat_a, sat_b, minSat) ==
    IF sat_a # None /\ sat_b # None
    THEN IF MeetsThreshold(Get(sat_a), minSat) /\ MeetsThreshold(Get(sat_b), minSat)
         THEN count + 1 ELSE 0
    ELSE 0

\* the run stops one stable round early
StabilityReachedEarly(count, stableRounds) == count + 1 >= stableRounds

\* line 73
StabilityReached(count, stableRounds) == count >= stableRounds

\* lines 60-77: the termination predicate at the end of a round
EvaluateRound ==
    /\ pc = "eval"
    /\ LET sat_a == GetSatisfaction(LatestEntry(transcript, "Agent A"))
           sat_b == GetSatisfaction(LatestEntry(transcript, "Agent B"))
           count == NextStableCount(stable_count, sat_a, sat_b, min_satisfaction)
       IN  /\ stable_count' = count
           /\ IF StabilityReached(count, stable_rounds)
              THEN /\ stop_reason' = StabilityReason
                   /\ pc' = "after_loop"
              ELSE /\ pc' = "loop"
                   /\ UNCHANGED stop_reason
    /\ UNCHANGED <<frames, config, transcript, context, turn, agent_idx, attempt,
                   last_valid, messages, outstanding, calls, file, writes, report>>

\* the raw lines of an entry are left out of its record
JsonSafeWithoutRawLines(entry) == [entry EXCEPT !.raw_lines = <<>>]

\* _json_safe: only bytes values are changed, and an entry holds none
JsonSafe(entry) == entry

\* lines 79-84: the default stop reason, then _write_transcript
WriteTranscript ==
    /\ pc = "after_loop"
    /\ stop_reason' = IF stop_reason = "" THEN BudgetReason ELSE stop_reason
    /\ file' = Some([i \in 1..Len(transcript) |->
                        [json |-> JsonSafe(transcript[i]), newline |-> TRUE]])
    /\ writes' = writes + 1
    /\ pc' = "report"
    /\ UNCHANGED <<frames, config, transcript, context, turn, agent_idx, attempt,
                   stable_count, last_valid, messages, outstanding, calls, report>>

\* lines 85-90: _print_final_report
PrintFinalReport ==
    /\ pc = "report"
    /\ LET reached_target == stable_count >= stable_rounds
       IN  report' = Some([stop_reason |-> stop_reason,
                           reached_target |-> reached_target,
                           unmet_reasons_printed |-> ~reached_target])
    /\ pc' = "done"
    /\ UNCHANGED <<frames, config, transcript, context, turn, agent_idx, attempt,
                   stable_count, stop_reason, last_valid, messages, outstanding,
                   calls, file, writes>>

Next ==
    \/ StartRound
    \/ LoopExhausted
    \/ BuildAndSend
    \/ \E res \in ChatResults : ChatReturn(res)
    \/ ChatRaise
    \/ EvaluateRound
    \/ WriteTranscript
    \/ PrintFinalReport

Spec == Init /\ [][Next]_vars

\* one round of run against answers of every kind
InitWide ==
    /\ InitConfig({1}, {1}, {KeepLast}, {MaxPoints})
    /\ InitRun

NextWide ==
    \/ StartRound
    \/ LoopExhausted
    \/ BuildAndSend
    \/ \E res \in WideChatResults : ChatReturn(res)
    \/ ChatRaise
    \/ EvaluateRound
    \/ WriteTranscript
    \/ PrintFinalReport

SpecWide == InitWide /\ [][NextWide]_vars

\* run when every streaming call returns: the thread is sequential and never
\* waits on anything but the call, so it always takes its next step
NextReturns ==
    \/ StartRound
    \/ LoopExhausted
    \/ BuildAndSend
    \/ \E res \in ChatResults : ChatReturn(res)
    \/ EvaluateRound
    \/ WriteTranscript
    \/ PrintFinalReport

\* the configurations of Init, the largest budget taken with the largest
\* stable_rounds only
InitLive ==
    /\ Init
    /\ (max_turns < MaxTurns \/ stable_rounds = MaxStable)

SpecLive == InitLive /\ [][NextReturns]_vars /\ WF_vars(NextReturns)

\* run under every sign of max_turns and of stable_rounds: --max-turns and
\* --stable-rounds are parsed with type=int and not range-checked
InitAnyRounds ==
    /\ InitConfig((-1)..MaxTurns, (-1)..MaxStable, {KeepLast}, {MaxPoints})
    /\ InitRun

SpecAnyRounds == InitAnyRounds /\ [][Next]_vars

\* run under every sign of summary_keep_last and of summary_max_points:
\* --summary-keep-last and --summary-max-points are parsed with type=int and
\* not range-checked
InitAnySummary ==
    /\ InitConfig({MaxTurns}, {MaxStable}, {-1, 0, KeepLast}, {-1, 0, MaxPoints})
    /\ InitRun

SpecAnySummary == InitAnySummary /\ [][Next]_vars

(* ============================ OllamaClient.chat ======================== *)

\* everything but the frame of chat
orchestrator == <<config, transcript, context, turn, agent_idx, attempt,
                  stable_count, stop_reason, last_valid, pc, messages,
                  outstanding, calls, file, writes, report>>

\* self.model
Model == "model"

\* the statuses a response comes with
Statuses == {200, 404, 500}

\* the lines a response yields
OllamaLine(s, done) ==
    Line(FALSE, "json",
         LineData("dict", None, Some(Holder(TRUE, Some(Content("str", s)))),
                  None, done))

OpenAILine(s, done) ==
    Line(TRUE, "json",
         LineData("dict", None, None,
                  Some(<<Choice(TRUE, Some(Holder(TRUE, Some(Content("str", s)))))>>),
                  done))

ErrorLine ==
    Line(FALSE, "json",
         LineData("dict", Some("boom"),
                  Some(Holder(TRUE, Some(Content("str", <<"x">>)))), None, FALSE))

EmptyLine == Line(FALSE, "empty", NoData)

GarbageLine == Line(FALSE, "garbage", NoData)

SentinelLine == Line(TRUE, "sentinel", NoData)

\* "data:" with nothing after it
BarePrefixLine == Line(TRUE, "empty", NoData)

\* {} : a JSON object with none of the expected fields
BareObjectLine == Line(FALSE, "json", LineData("dict", None, None, None, FALSE))

\* 5 : JSON, but not an object
NumberLine == Line(FALSE, "json", LineData("int", None, None, None, FALSE))

\* {"message": null, "choices": []}
NullMessageLine ==
    Line(FALSE, "json",
         LineData("dict", None, Some(Holder(FALSE, None)), Some(<<>>), FALSE))

Lines ==
    {EmptyLine, GarbageLine, SentinelLine, BarePrefixLine, ErrorLine,
     OllamaLine(<<"a", "b">>, FALSE), OllamaLine(EmptyStr, FALSE),
     OllamaLine(<<"c">>, TRUE),
     OpenAILine(<<"a", "b">>, FALSE), OpenAILine(EmptyStr, FALSE),
     OpenAILine(<<"c">>, TRUE),
     BareObjectLine, NumberLine, NullMessageLine}

\* chat raised exc
Raised(c, exc) == [c EXCEPT !.pc = "raised", !.exc = exc]

\* the rest of the loop body once chunk is known
TakeChunk(c, data, chunk) ==
    LET ends == DoneBreaks(data, c.using_openai)
        after == IF ends THEN "returned" ELSE "stream"
    IN  IF ~TruthyChunk(chunk) THEN [c EXCEPT !.pc = after]
        ELSE IF chunk.t # "str" THEN Raised(c, "TypeError")
        ELSE [c EXCEPT !.full_text = @ \o chunk.s,
                       !.callbacks = IF c.on_chunk THEN Append(@, chunk.s) ELSE @,
                       !.pc = after]

\* the loop body from json.loads on, line already in raw_lines
Decode(c, line) ==
    IF ~Decodes(line) THEN c
    ELSE IF ErrorTestRaises(line.data) # "" THEN Raised(c, ErrorTestRaises(line.data))
    ELSE IF ErrorTest(line.data)
    THEN [Raised(c, "RuntimeError") EXCEPT !.exc_arg = line.data.error]
    ELSE LET r == ChunkOf(line.data, c.using_openai)
         IN  IF r.exc # "" THEN Raised(c, r.exc)
             ELSE TakeChunk(c, line.data, r.chunk)

\* one iteration of `for line in response.iter_lines(...)`
Consume(c, line) ==
    LET got == [c EXCEPT !.stream = Append(@, line)]
    IN  IF IsEmptyLine(line) THEN got
        ELSE IF IsDoneSentinel(line, c.using_openai)
        THEN [got EXCEPT !.pc = "returned"]
        ELSE LET body == StripPrefix(line, c.using_openai)
             IN  Decode([got EXCEPT !.raw_lines = Append(@, body)], body)

\* requests.post(url, json=payload, ...) answered with a status
PostPrimary(status) ==
    /\ chat.pc = "start"
    /\ chat' = [chat EXCEPT
                  !.requests = Append(@, PrimaryRequest(Model, chat.messages,
                                                        chat.options)),
                  !.status = status,
                  !.pc = "negotiate"]
    /\ UNCHANGED <<orchestrator, parse_call, summary_call>>

PostFallback(status) ==
    /\ chat.pc = "negotiate"
    /\ FallbackNeeded(chat.status)
    /\ chat' = [chat EXCEPT
                  !.requests = Append(@, FallbackRequest(Model, chat.messages,
                                                         chat.options)),
                  !.status = status,
                  !.using_openai = TRUE,
                  !.pc = "status"]
    /\ UNCHANGED <<orchestrator, parse_call, summary_call>>

\* requests.post raised: no response
PostRaises ==
    /\ \/ chat.pc = "start"
       \/ chat.pc = "negotiate" /\ FallbackNeeded(chat.status)
    /\ chat' = Raised([chat EXCEPT
                  !.requests = Append(@,
                      IF chat.pc = "start"
                      THEN PrimaryRequest(Model, chat.messages, chat.options)
                      ELSE FallbackRequest(Model, chat.messages, chat.options))],
                  "RequestException")
    /\ UNCHANGED <<orchestrator, parse_call, summary_call>>

\* response.raise_for_status()
CheckStatus ==
    /\ \/ chat.pc = "status"
       \/ chat.pc = "negotiate" /\ ~FallbackNeeded(chat.status)
    /\ chat' = IF RaiseForStatus(chat.status) THEN Raised(chat, "HTTPError")
               ELSE [chat EXCEPT !.pc = "stream"]
    /\ UNCHANGED <<orchestrator, parse_call, summary_call>>

NextLine(line) ==
    /\ chat.pc = "stream"
    /\ Len(chat.stream) < MaxLines
    /\ chat' = Consume(chat, line)
    /\ UNCHANGED <<orchestrator, parse_call, summary_call>>

\* the response has no more lines: return full_text, raw_lines
StreamEnds ==
    /\ chat.pc = "stream"
    /\ chat' = [chat EXCEPT !.pc = "returned"]
    /\ UNCHANGED <<orchestrator, parse_call, summary_call>>

\* iter_lines raised: the connection broke
StreamRaises ==
    /\ chat.pc = "stream"
    /\ chat' = Raised(chat, "RequestException")
    /\ UNCHANGED <<orchestrator, parse_call, summary_call>>

\* a call of chat with or without a callback and options
InitChat ==
    /\ InitConfig({0}, {1}, {KeepLast}, {MaxPoints})
    /\ InitFrame
    /\ parse_call = NoParse
    /\ summary_call = NoSummary
    /\ \E options \in {None, Some({"temperature"})}, on_chunk \in BOOLEAN :
          chat = ChatFrame("start", <<"system", "user">>, options, on_chunk)

NextChat ==
    \/ \E status \in Statuses : PostPrimary(status)
    \/ \E status \in Statuses : PostFallback(status)
    \/ PostRaises
    \/ CheckStatus
    \/ \E line \in Lines : NextLine(line)
    \/ StreamEnds
    \/ StreamRaises

SpecChat == InitChat /\ [][NextChat]_vars

(* ====================== properties of the orchestrator ================= *)

\* the positions, in Transcript order, of the entries of round r and agent a
EntriesOf(r, a) ==
    {i \in 1..Len(transcript) : transcript[i].turn = r /\ transcript[i].agent = a}

Failed(e) == e.parse_error # None

\* the turn of agent a in round r has returned to run
TurnCompleted(r, a) ==
    \/ r < turn
    \/ /\ r = turn
       /\ \/ pc \in {"eval", "loop", "after_loop", "report", "done"}
          \/ a = "Agent A" /\ agent_idx = 2

InAttempt == pc \in {"build", "chat"}

\* C1: in every agent turn attempt 2 is made if and only if attempt 1 failed
\* validation, the strict-JSON directive is in the prompt of attempt 2 and
\* never in the prompt of attempt 1, and there is no third attempt: the
\* entries of a (round, agent) pair are attempt 1 alone, or a failed attempt 1
\* followed by attempt 2.
C1_RetryProtocol ==
    /\ attempt \in {1, 2}
    /\ \A i \in 1..Len(transcript) :
          /\ transcript[i].attempt \in {1, 2}
          /\ transcript[i].attempt = 1 =>
                EntriesOf(transcript[i].turn, transcript[i].agent) \subseteq {i, i + 1}
          /\ transcript[i].attempt = 2 =>
                /\ i > 1
                /\ transcript[i - 1].turn = transcript[i].turn
                /\ transcript[i - 1].agent = transcript[i].agent
                /\ transcript[i - 1].attempt = 1
                /\ Failed(transcript[i - 1])
                /\ EntriesOf(transcript[i].turn, transcript[i].agent) = {i - 1, i}
    /\ \A r \in 1..turn : \A a \in {"Agent A", "Agent B"} :
          TurnCompleted(r, a) => Cardinality(EntriesOf(r, a)) \in {1, 2}
    \* a failed attempt 1 is always followed by attempt 2 of the same turn
    /\ (Len(transcript) > 0 /\ transcript[Len(transcript)].attempt = 1
            /\ Failed(transcript[Len(transcript)])) =>
          /\ pc \in {"build", "chat", "raised"}
          /\ attempt = 2
          /\ transcript[Len(transcript)].turn = turn
          /\ transcript[Len(transcript)].agent = AgentName
    \* attempt 2 is made only after a failed attempt 1 of the same turn
    /\ (InAttempt /\ attempt = 2) =>
          /\ Len(transcript) > 0
          /\ transcript[Len(transcript)].attempt = 1
          /\ Failed(transcript[Len(transcript)])
          /\ transcript[Len(transcript)].turn = turn
          /\ transcript[Len(transcript)].agent = AgentName
    \* attempt 1 starts a turn that has no entry yet
    /\ (InAttempt /\ attempt = 1) => EntriesOf(turn, AgentName) = {}
    \* the directive is in the prompt of attempt 2 and of no attempt 1
    /\ pc = "chat" =>
          ((\E k \in 1..Len(messages) : messages[k].kind = "strict_json") <=> attempt = 2)

\* a turn with two entries lies behind, and attempt 2 of a later turn is in
\* flight with the directive in its prompt
C1_Witness ==
    /\ pc = "chat"
    /\ attempt = 2
    /\ \E k \in 1..Len(messages) : messages[k] = StrictDirective
    /\ \E r \in 1..turn : \E a \in {"Agent A", "Agent B"} :
          TurnCompleted(r, a) /\ Cardinality(EntriesOf(r, a)) = 2
    /\ \E r \in 1..turn : \E a \in {"Agent A", "Agent B"} :
          TurnCompleted(r, a) /\ Cardinality(EntriesOf(r, a)) = 1

\* the position of agent a's latest entry, 0 when it has none
LastIndexOf(a) ==
    IF \E i \in 1..Len(transcript) : transcript[i].agent = a
    THEN CHOOSE i \in 1..Len(transcript) :
            /\ transcript[i].agent = a
            /\ \A j \in (i + 1)..Len(transcript) : transcript[j].agent # a
    ELSE 0

\* agent a's latest entry is valid and its satisfaction meets the threshold
LatestValidAndSatisfied(a) ==
    /\ LastIndexOf(a) # 0
    /\ ~Failed(transcript[LastIndexOf(a)])
    /\ transcript[LastIndexOf(a)].satisfaction # None
    /\ Get(transcript[LastIndexOf(a)].satisfaction) >= min_satisfaction

\* agent a failed both attempts of round r
FailedBothAttempts(r, a) ==
    /\ Cardinality(EntriesOf(r, a)) = 2
    /\ \A i \in EntriesOf(r, a) : Failed(transcript[i])

\* C2: the round evaluation sets the consecutive-stable-round counter to its
\* previous value plus one if both agents have a valid latest entry with
\* satisfaction >= min_satisfaction, and to zero otherwise; a round in which
\* an agent failed both attempts resets it to zero and does not end the run:
\* the loop goes on, and the next round runs if budget remains.
C2_StableCounter ==
    /\ [][pc = "eval" =>
             /\ stable_count' =
                   IF LatestValidAndSatisfied("Agent A") /\ LatestValidAndSatisfied("Agent B")
                   THEN stable_count + 1 ELSE 0
             /\ (\E a \in {"Agent A", "Agent B"} : FailedBothAttempts(turn, a)) =>
                   /\ stable_count' = 0
                   /\ pc' = "loop"
                   /\ stop_reason' = ""]_vars
    /\ [][(pc = "loop" /\ turn < max_turns) =>
             (turn' = turn + 1 /\ agent_idx' = 1 /\ attempt' = 1 /\ pc' = "build")]_vars

\* round 1 is over with Agent B failed twice and Agent A valid and above the
\* threshold: the counter is zero and round 2 is about to start
C2_Witness ==
    /\ pc = "loop"
    /\ turn = 1
    /\ turn < max_turns
    /\ stable_count = 0
    /\ FailedBothAttempts(1, "Agent B")
    /\ LatestValidAndSatisfied("Agent A")

\* round r was stable: at its end both agents' latest entries, which are
\* their last entries of round r, were valid with satisfaction >= threshold
RoundStable(r) ==
    \A a \in {"Agent A", "Agent B"} :
        /\ EntriesOf(r, a) # {}
        /\ LET last == CHOOSE i \in EntriesOf(r, a) : \A j \in EntriesOf(r, a) : j <= i
           IN  /\ ~Failed(transcript[last])
               /\ Get(transcript[last].satisfaction) >= min_satisfaction

\* rounds r-K+1..r exist and were all stable, K = stable_rounds
StableWindowEndsAt(r) ==
    /\ r >= stable_rounds
    /\ \A q \in (r - stable_rounds + 1)..r : RoundStable(q)

\* the number of rounds whose evaluation is over
RoundsEvaluated ==
    IF pc \in {"build", "chat", "eval", "raised"} THEN turn - 1 ELSE turn

\* C3: the run stops with the stability reason at the end of round r exactly
\* when r is the first round that ends stable_rounds consecutive stable
\* rounds; it never stops so before round stable_rounds; and once it has
\* stopped no agent turn runs.
C3_StopsAtFirstStableWindow ==
    /\ [](/\ \A r \in 1..RoundsEvaluated :
                StableWindowEndsAt(r) <=> (stop_reason = StabilityReason /\ r = turn)
          /\ stop_reason = StabilityReason =>
                /\ turn >= stable_rounds
                /\ RoundsEvaluated = turn
                /\ StableWindowEndsAt(turn)
                /\ pc \in {"after_loop", "report", "done"}
                /\ outstanding = 0
                /\ \A i \in 1..Len(transcript) : transcript[i].turn <= turn)
    /\ [][stop_reason = StabilityReason =>
             UNCHANGED <<transcript, context, calls, turn, outstanding, messages>>]_vars

\* with stable_rounds = 2 the run has stopped for stability after round 2
C3_Witness ==
    /\ stable_rounds = 2
    /\ stop_reason = StabilityReason
    /\ turn = 2
    /\ pc = "done"
    /\ RoundStable(1)
    /\ RoundStable(2)

TurnOver(r, a) ==
    \E i \in EntriesOf(r, a) : ~Failed(transcript[i]) \/ transcript[i].attempt = 2

\* C5: rounds run in increasing order; inside a round all attempts of
\* Agent A's turn are over before Agent B's first attempt starts; at most one
\* generation call is outstanding. So round numbers never decrease along
\* Transcript and, within a round, every Agent A entry precedes every Agent B
\* entry.
C5_StrictSequence ==
    /\ [](/\ outstanding \in {0, 1}
          /\ outstanding = 1 <=> pc = "chat"
          /\ \A i \in 1..Len(transcript) : \A j \in (i + 1)..Len(transcript) :
                /\ transcript[i].turn <= transcript[j].turn
                /\ (transcript[i].turn = transcript[j].turn
                        /\ transcript[j].agent = "Agent A") =>
                      transcript[i].agent = "Agent A"
          /\ \A i \in 1..Len(transcript) : transcript[i].turn <= turn
          /\ (InAttempt /\ AgentName = "Agent B") => TurnOver(turn, "Agent A")
          /\ (InAttempt /\ AgentName = "Agent A") => EntriesOf(turn, "Agent B") = {}
          /\ InAttempt => \A r \in 1..(turn - 1) :
                             TurnOver(r, "Agent A") /\ TurnOver(r, "Agent B"))
    /\ [][turn' \in {turn, turn + 1}]_vars
    /\ [][calls' # calls => (outstanding = 0 /\ outstanding' = 1 /\ calls' = calls + 1)]_vars

\* round 2: Agent B's call is in flight after Agent A needed two attempts in
\* both rounds
C5_Witness ==
    /\ pc = "chat"
    /\ outstanding = 1
    /\ turn = 2
    /\ AgentName = "Agent B"
    /\ Cardinality(EntriesOf(1, "Agent A")) = 2
    /\ Cardinality(EntriesOf(2, "Agent A")) = 2
    /\ EntriesOf(1, "Agent B") # {}

KeptInContext(e) == ~Failed(e) \/ e.attempt = 2

\* C6: Context is the order-preserving subsequence of Transcript made of the
\* entries without parse error and the failed attempt-2 entries; a failed
\* attempt-1 entry is never in Context.
C6_ContextIsFilteredTranscript ==
    /\ context = SelectSeq(transcript, KeptInContext)
    /\ \A k \in 1..Len(context) : ~(Failed(context[k]) /\ context[k].attempt = 1)
    /\ \A i \in 1..Len(transcript) :
          (Failed(transcript[i]) /\ transcript[i].attempt = 2) =>
              \E k \in 1..Len(context) : context[k] = transcript[i]

\* a turn failed both attempts: its attempt-2 entry is in Context, its
\* attempt-1 entry only in Transcript
C6_Witness ==
    \E i \in 1..(Len(transcript) - 1) :
        /\ Failed(transcript[i]) /\ transcript[i].attempt = 1
        /\ Failed(transcript[i + 1]) /\ transcript[i + 1].attempt = 2
        /\ context # <<>>
        /\ context[Len(context)] = transcript[i + 1]
        /\ Len(context) = Len(transcript) - 1

AllEntries ==
    {transcript[i] : i \in 1..Len(transcript)} \cup {context[k] : k \in 1..Len(context)}

HasNoPayload(e) ==
    /\ e.parsed = None
    /\ e.satisfaction = None
    /\ e.key_points = None
    /\ e.needs_from_other = None

HasPayload(e) ==
    /\ e.parsed # None
    /\ DOMAIN Get(e.parsed) =
          {"reply_zh_tw", "satisfaction", "key_points", "needs_from_other"}
    /\ e.satisfaction # None
    /\ Get(e.satisfaction) \in 0..100
    /\ Get(e.parsed)["satisfaction"] = JInt(Get(e.satisfaction))
    /\ e.key_points # None
    /\ e.needs_from_other # None

\* C8: every entry of Transcript and of Context has either a parse error and
\* no structured payload, or no parse error and a structured payload whose
\* satisfaction is an integer in 0..100; never both, never neither.
C8_ErrorXorPayload ==
    \A e \in AllEntries :
        \/ e.parse_error # None /\ TruthyStr(e.parse_error) /\ HasNoPayload(e)
        \/ e.parse_error = None /\ HasPayload(e)

\* the round is over with entries of both kinds: satisfaction 100 accepted,
\* 101 rejected
C8_Witness ==
    /\ pc = "eval"
    /\ \E e \in AllEntries : e.parse_error = None /\ e.satisfaction = Some(100)
    /\ \E e \in AllEntries :
          /\ e.parse_error = Some(Fmt("satisfaction out of range.", ""))
          /\ e.raw_output.fields["satisfaction"] = JInt(101)
    /\ \E k \in 1..Len(context) : context[k].parse_error # None

\* agent a's most recent entry without parse error, None when it has none
MostRecentValid(a) ==
    LET valid == {i \in 1..Len(transcript) :
                     transcript[i].agent = a /\ ~Failed(transcript[i])}
    IN  IF valid = {} THEN None
        ELSE Some(transcript[CHOOSE i \in valid : \A j \in valid : j <= i])

\* in round r agent a's attempt 1 was malformed and its attempt 2 well-formed
Recovered(r, a) ==
    \E i \in EntriesOf(r, a) :
        /\ transcript[i].attempt = 2
        /\ ~Failed(transcript[i])

\* C9: after a turn whose attempt 1 is malformed and whose attempt 2 is
\* well-formed, Transcript holds for that (round, agent) exactly one entry
\* with parse_error and one without; the well-formed one is the entry the
\* round evaluation reads and is the agent's last_valid; at the end of every
\* turn last_valid is the agent's most recent non-error Transcript entry, or
\* absent when there is none.
C9_RecoveredTurn ==
    /\ [](/\ \A a \in {"Agent A", "Agent B"} : last_valid[a] = MostRecentValid(a)
          /\ \A r \in 1..turn : \A a \in {"Agent A", "Agent B"} :
                Recovered(r, a) =>
                   /\ Cardinality(EntriesOf(r, a)) = 2
                   /\ Cardinality({i \in EntriesOf(r, a) : Failed(transcript[i])}) = 1
                   /\ Cardinality({i \in EntriesOf(r, a) : ~Failed(transcript[i])}) = 1
          /\ pc = "eval" =>
                \A a \in {"Agent A", "Agent B"} :
                   Recovered(turn, a) =>
                      /\ LatestEntry(transcript, a) = last_valid[a]
                      /\ Get(last_valid[a]).turn = turn
                      /\ Get(last_valid[a]).attempt = 2
                      /\ GetSatisfaction(LatestEntry(transcript, a))
                            = Get(last_valid[a]).satisfaction)
    /\ [][(pc = "eval" /\ Recovered(turn, "Agent A") /\ Recovered(turn, "Agent B")) =>
             stable_count' =
                IF /\ Get(Get(last_valid["Agent A"]).satisfaction) >= min_satisfaction
                   /\ Get(Get(last_valid["Agent B"]).satisfaction) >= min_satisfaction
                THEN stable_count + 1 ELSE 0]_vars

\* round 2 is being evaluated: Agent A recovered on attempt 2 in both rounds,
\* Agent B never produced a valid entry
C9_Witness ==
    /\ pc = "eval"
    /\ turn = 2
    /\ Recovered(1, "Agent A")
    /\ Recovered(2, "Agent A")
    /\ last_valid["Agent B"] = None
    /\ Get(last_valid["Agent A"]).turn = 2

\* C10 as stated: after a transport error in attempt 1 or attempt 2 the turn
\* is reported as invalid for the round, an outcome with no satisfaction and no
\* key points.
C10_ReportedInvalid ==
    pc = "raised" =>
        \E i \in EntriesOf(turn, AgentName) :
            /\ transcript[i].attempt = attempt
            /\ transcript[i].satisfaction = None
            /\ transcript[i].key_points = None

\* C10, amended: a transport error during attempt 1 or attempt 2 ends the
\* agent's turn with no further attempt, and it ends the run with it: the
\* error is caught nowhere, so the failing attempt records no entry and no
\* outcome, no later turn or round evaluation runs, and neither the
\* transcript file nor the final report is produced.
C10_TransportErrorEndsRun ==
    /\ [](pc = "raised" =>
             /\ outstanding = 0
             /\ \A i \in EntriesOf(turn, AgentName) : transcript[i].attempt < attempt
             /\ stop_reason = ""
             /\ file = None
             /\ report = None)
    /\ [][(pc = "chat" /\ transcript' = transcript) =>
             /\ pc' = "raised"
             /\ UNCHANGED <<context, last_valid, stable_count, calls, turn,
                            agent_idx, attempt>>]_vars
    /\ [][pc = "raised" => UNCHANGED vars]_vars

\* the call of attempt 2 raised in round 2, after a failed attempt 1
C10_Witness ==
    /\ pc = "raised"
    /\ turn = 2
    /\ attempt = 2
    /\ Cardinality(EntriesOf(turn, AgentName)) = 1
    /\ file = None

\* C11: for every integer max_turns and stable_rounds, a run that ends with
\* the budget-exhausted stop reason prints the unmet-termination diagnostics
\* (reached_target is false), a run that ends with the stability stop reason
\* has reached_target true and does not print them, and the stop reason is
\* always printed.
C11_DiagnosticsFollowStopReason ==
    report # None =>
        /\ Get(report).stop_reason = stop_reason
        /\ stop_reason \in {BudgetReason, StabilityReason}
        /\ stop_reason = BudgetReason =>
              (~Get(report).reached_target /\ Get(report).unmet_reasons_printed)
        /\ stop_reason = StabilityReason =>
              (Get(report).reached_target /\ ~Get(report).unmet_reasons_printed)

(* ===================== Orchestrator._parse_output ====================== *)

\* the values tried under each of the four keys
Replies == {JStr("r"), JInt(5)}

Needs == {JStr("n"), JNull}

KeyPoints ==
    {JList(<<IStr("a"), IStr("b")>>), JList(<<>>), JStr("a"),
     JList(<<IStr("a"), IInt(1)>>)}

Satisfactions ==
    {JInt(0), JInt(100), JInt(101), JInt(-1), JInt(DefaultMinSat), JStr("95"),
     JStr("high"), JNull, JList(<<>>), JBool(TRUE), JFloat("finite", DefaultMinSat),
     JFloat("nan", 0), JFloat("inf", 0)}

\* the object of text without the keys outside keys
WithKeys(text, keys) ==
    [decodes |-> TRUE, isobj |-> TRUE,
     fields |-> [k \in DOMAIN text.fields \cap keys |-> text.fields[k]]]

RequiredKeys == {required[i] : i \in 1..Len(required)}

\* objects lacking one or more of the required keys, the others valid or not
PartialTexts ==
    {WithKeys(t, keys) :
        t \in {GoodText, ObjectText(JInt(5), JNull, JStr("a"), JNull)},
        keys \in (SUBSET RequiredKeys) \ {RequiredKeys}}

ParseTexts ==
    {BadText, NotObjectText}
    \cup PartialTexts
    \cup {ObjectText(r, s, p, n) :
            r \in Replies, s \in Satisfactions, p \in KeyPoints, n \in Needs}

\* a number is written as a string
DumpsValueQuoted(v) == IF v.t = "int" THEN JStr("n") ELSE v

\* json.dumps of a value, as the value json.loads reads back
DumpsValue(v) ==
    CASE v.t = "int" -> JInt(v.n)
      [] v.t = "bool" -> JBool(v.n = 1)
      [] v.t = "str" -> JStr(v.s)
      [] v.t = "null" -> JNull
      [] v.t = "list" -> JList(v.l)
      [] v.t = "float" -> JFloat(v.s, v.n)

\* json.dumps(record): the text of an object with the record's keys
Dumps(data) ==
    [decodes |-> TRUE, isobj |-> TRUE,
     fields |-> [k \in DOMAIN data |-> DumpsValue(data[k])]]

\* _parse_output(text) returns or raises
ParseReturn ==
    /\ parse_call.pc = "call"
    /\ LET r == ParseOutput(parse_call.text)
       IN  parse_call' = [parse_call EXCEPT
                            !.result = r,
                            !.pc = IF r.raised # "" THEN "raised" ELSE "returned"]
    /\ UNCHANGED <<orchestrator, chat, summary_call>>

\* the returned record is written back as text
Reserialise ==
    /\ parse_call.pc = "returned"
    /\ parse_call.result.data # None
    /\ parse_call' = [parse_call EXCEPT
                        !.dumped = Some(Dumps(Get(parse_call.result.data))),
                        !.pc = "dumped"]
    /\ UNCHANGED <<orchestrator, chat, summary_call>>

\* _parse_output on the re-serialised text
ParseAgain ==
    /\ parse_call.pc = "dumped"
    /\ LET r == ParseOutput(Get(parse_call.dumped))
       IN  parse_call' = [parse_call EXCEPT
                            !.again = r,
                            !.pc = IF r.raised # "" THEN "raised" ELSE "again"]
    /\ UNCHANGED <<orchestrator, chat, summary_call>>

InitParse ==
    /\ InitConfig({0}, {1}, {KeepLast}, {MaxPoints})
    /\ InitFrame
    /\ chat = NoCall
    /\ summary_call = NoSummary
    /\ \E text \in ParseTexts : parse_call = ParseFrame("call", text)

NextParse ==
    \/ ParseReturn
    \/ Reserialise
    \/ ParseAgain

SpecParse == InitParse /\ [][NextParse]_vars

(* ============== Orchestrator._summarize_and_trim_context =============== *)

\* what the entries of Context were made from: an answer with two key points,
\* one with one, one with a reply and no key point, one with neither, and one
\* that failed to parse
ContextTexts ==
    {GoodText, LowText,
     ObjectText(JStr("r4"), JInt(0), JList(<<>>), JStr("")),
     ObjectText(JStr(""), JInt(0), JList(<<>>), JStr("")),
     BadText}

\* the i-th entry of Context: turns alternate between the agents, and a failed
\* entry is in Context only as the second attempt
ContextEntry(i, text) ==
    LET r == ParseOutput(text)
    IN  MakeEntry((i + 1) \div 2, AgentNames[((i - 1) % 2) + 1],
                  IF r.error # None THEN 2 ELSE 1,
                  [output |-> text, raw_lines |-> <<"line">>], r)

Contexts ==
    UNION {{[i \in 1..n |-> ContextEntry(i, f[i])] : f \in [1..n -> ContextTexts]} :
             n \in 0..MaxContext}

\* _summarize_and_trim_context returns
SummaryReturn ==
    /\ summary_call.pc = "call"
    /\ LET st == SummarizeAndTrimContext(summary_call.context,
                                         summary_call.summary_keep_last,
                                         summary_call.summary_max_points)
       IN  summary_call' = [summary_call EXCEPT
                              !.summary = st.summary,
                              !.recent = st.recent,
                              !.pc = "returned"]
    /\ UNCHANGED <<orchestrator, chat, parse_call>>

InitSummary ==
    /\ InitConfig({0}, {1}, {KeepLast}, {MaxPoints})
    /\ InitFrame
    /\ chat = NoCall
    /\ parse_call = NoParse
    /\ \E ctx \in Contexts, keepLast \in 0..KeepLast, maxPoints \in 1..MaxPoints :
          summary_call = SummaryFrame("call", ctx, keepLast, maxPoints)

NextSummary == SummaryReturn

SpecSummary == InitSummary /\ [][NextSummary]_vars

(* ==================== properties of OllamaClient.chat ================== *)

Success(status) == status \in 200..299

\* the response whose status is in chat.status is the primary one, not yet
\* acted upon
PrimaryAnswered == chat.pc = "negotiate"

\* the response whose status is in chat.status is the fallback one
FallbackAnswered == chat.pc = "status"

\* C12: the fallback request is issued if and only if the primary request
\* returned status 404, and it carries the same model and messages as the
\* primary one; a call issues at most two requests; any other non-success
\* status of the primary request, and any non-success status of the fallback
\* request (404 included), fails the call with no further request and with no
\* line consumed.
C12_FallbackOnlyOn404 ==
    /\ [](/\ Len(chat.requests) <= 2
          /\ Len(chat.requests) >= 1 => chat.requests[1].url = PrimaryUrl
          /\ Len(chat.requests) = 2 =>
                /\ chat.requests[2].url = FallbackUrl
                /\ chat.requests[2].model = chat.requests[1].model
                /\ chat.requests[2].messages = chat.requests[1].messages
                /\ chat.requests[1].messages = chat.messages
          /\ (chat.pc = "raised" /\ chat.exc = "HTTPError") =>
                (chat.stream = <<>> /\ chat.raw_lines = <<>>))
    /\ [][Len(chat'.requests) = 2 /\ Len(chat.requests) = 1 =>
             PrimaryAnswered /\ chat.status = 404]_vars
    /\ [][PrimaryAnswered /\ chat.status = 404 => Len(chat'.requests) = 2]_vars
    /\ [][(/\ PrimaryAnswered \/ FallbackAnswered
           /\ ~Success(chat.status)
           /\ ~(PrimaryAnswered /\ chat.status = 404)) =>
             /\ chat'.pc = "raised"
             /\ chat'.requests = chat.requests
             /\ chat'.stream = <<>>]_vars
    /\ [][chat.pc = "raised" => UNCHANGED vars]_vars

\* the fallback request was itself answered 404 and the call failed
C12_Witness ==
    /\ chat.pc = "raised"
    /\ chat.exc = "HTTPError"
    /\ chat.status = 404
    /\ Len(chat.requests) = 2

\* the text fragment a consumed line carries under the dialect in use: the str
\* under message.content (primary) or choices[0].delta.content (fallback) of a
\* record that is not an error record, "" when there is none
FragmentOf(line, using_openai) ==
    LET body == StripPrefix(line, using_openai)
        r == ChunkOf(body.data, using_openai)
    IN  IF /\ ~IsEmptyLine(line)
           /\ Decodes(body)
           /\ body.data.shape = "dict"
           /\ body.data.error = None
           /\ r.exc = ""
           /\ r.chunk.t = "str"
        THEN r.chunk.s
        ELSE EmptyStr

\* the non-empty fragments of the lines consumed so far, in arrival order
FragmentsArrived ==
    SelectSeq([i \in 1..Len(chat.stream) |->
                   FragmentOf(chat.stream[i], chat.using_openai)],
              LAMBDA s : s # EmptyStr)

RECURSIVE Concatenation(_)
Concatenation(fragments) ==
    IF fragments = <<>> THEN EmptyStr
    ELSE Head(fragments) \o Concatenation(Tail(fragments))

\* C13: within one streaming call in which a callback is supplied, the callback
\* is invoked exactly once for each non-empty fragment, in arrival order, and
\* never for an empty fragment; the aggregate text equals the concatenation,
\* in order, of the fragments passed to the callback.
C13_CallbackPerFragment ==
    chat.on_chunk =>
        /\ chat.callbacks = FragmentsArrived
        /\ \A i \in 1..Len(chat.callbacks) : chat.callbacks[i] # EmptyStr
        /\ chat.full_text = Concatenation(chat.callbacks)

\* a call that returned after two non-empty fragments and an empty one
C13_Witness ==
    /\ chat.pc = "returned"
    /\ chat.on_chunk
    /\ Len(chat.callbacks) = 2
    /\ \E i \in 1..Len(chat.stream) :
          /\ Decodes(StripPrefix(chat.stream[i], chat.using_openai))
          /\ ChunkOf(chat.stream[i].data, chat.using_openai) =
                ChunkResult("", DefaultContent)
          /\ i < Len(chat.stream)

\* C14: once the response status is a success, chat fails only when a decoded
\* record carries an explicit error field or the transport itself breaks; for
\* every other sequence of received lines, whatever each line's content, the
\* call returns without raising.
C14_FailsOnlyOnErrorRecord ==
    (chat.pc = "raised" /\ chat.exc \notin {"HTTPError", "RequestException"}) =>
        /\ chat.exc = "RuntimeError"
        /\ chat.stream # <<>>
        /\ LET last == StripPrefix(chat.stream[Len(chat.stream)], chat.using_openai)
           IN  Decodes(last) /\ last.data.shape = "dict" /\ last.data.error # None

(* ===================== properties of _parse_output ===================== *)

\* the call followed on its own is over
Parsed == parse_call.pc \in {"returned", "raised", "dumped", "again"}

\* the other three fields of the argument are valid
OthersValid(text) ==
    /\ text.decodes /\ text.isobj
    /\ RequiredKeys \subseteq DOMAIN text.fields
    /\ text.fields["reply_zh_tw"].t = "str"
    /\ text.fields["needs_from_other"].t = "str"
    /\ IsListOfStr(text.fields["key_points"])

Succeeded(result) == result.raised = "" /\ result.data # None /\ result.error = None

Rejected(result) == result.raised = "" /\ result.data = None /\ TruthyStr(result.error)

\* C15: given a payload whose other three fields are valid, _parse_output
\* succeeds if and only if the satisfaction field coerces to an integer in
\* 0..100: 0 and 100 are accepted, -1 and 101 are rejected with an error and not
\* clamped, a value that fails coercion is rejected with an error, and "95" is
\* accepted and returned as the integer 95.
C15_SatisfactionCoercion ==
    (Parsed /\ OthersValid(parse_call.text)) =>
        LET sat == parse_call.text.fields["satisfaction"]
            c == IntOf(sat)
            ok == c.exc = "" /\ c.n \in 0..100
            result == parse_call.result
        IN  /\ Succeeded(result) <=> ok
            /\ ~ok => Rejected(result)
            /\ ok => Get(result.data)["satisfaction"] = JInt(c.n)
            /\ sat \in {JInt(0), JInt(100)} => Succeeded(result)
            /\ sat \in {JInt(-1), JInt(101)} => Rejected(result)
            /\ sat = JStr("95") =>
                  Succeeded(result) /\ Get(result.data)["satisfaction"] = JInt(95)

\* the argument is an object lacking at least one required key
LacksKey(text) ==
    text.decodes /\ text.isobj /\ ~(RequiredKeys \subseteq DOMAIN text.fields)

\* C16: for every object payload missing any of the four required fields,
\* _parse_output fails with an error message naming the missing field, whatever
\* the values of the fields that are present; when several are missing it names
\* the first missing one in the order reply_zh_tw, satisfaction, key_points,
\* needs_from_other.
C16_MissingKeyNamed ==
    (Parsed /\ LacksKey(parse_call.text)) =>
        LET order == <<"reply_zh_tw", "satisfaction", "key_points", "needs_from_other">>
            present == DOMAIN parse_call.text.fields
        IN  \E i \in 1..Len(order) :
               /\ order[i] \notin present
               /\ \A j \in 1..(i - 1) : order[j] \in present
               /\ parse_call.result =
                     ParseResult(None, Some(Fmt("Missing key: ", order[i])))

\* satisfaction and needs_from_other are missing and reply_zh_tw is not a string
C16_Witness ==
    /\ Parsed
    /\ parse_call.text.decodes /\ parse_call.text.isobj
    /\ DOMAIN parse_call.text.fields = {"reply_zh_tw", "key_points"}
    /\ parse_call.text.fields["reply_zh_tw"].t # "str"

\* C17: _parse_output is total: for every input text it returns, without
\* raising, exactly one of a record with integer satisfaction and no error, or
\* no record and a non-empty error description, including for non-object JSON
\* values and for satisfaction values of any JSON type or magnitude; it changes
\* no orchestrator state.
C17_ParseOutputTotal ==
    Parsed =>
        /\ parse_call.result.raised = ""
        /\ \/ /\ Succeeded(parse_call.result)
              /\ Get(parse_call.result.data)["satisfaction"].t = "int"
           \/ Rejected(parse_call.result)
        /\ transcript = <<>> /\ context = <<>> /\ stable_count = 0

RenderedEntries == SelectSeq(messages, LAMBDA m : m.kind \in {"own", "other"})

\* the points of the summary of the prompt in flight
SummaryPoints ==
    LET s == SelectSeq(messages, LAMBDA m : m.kind = "summary")
    IN  IF s = <<>> THEN <<>> ELSE s[1].bullets

\* C19: for every integer summary_keep_last = N and summary_max_points = M and
\* for every number of rounds, each prompt built by _run_agent_turn renders at
\* most N Context entries verbatim (none when N is negative) and its summary
\* holds at most M points (none when M is negative).
C19_PromptBounded ==
    /\ Len(RenderedEntries) <= Max(0, summary_keep_last)
    /\ Len(SummaryPoints) <= Max(0, summary_max_points)

(* ================= properties of the termination predicate ============= *)

\* the round being evaluated is one in which some agent failed both attempts
\* while holding a valid entry from an earlier round
StaleAgentInRound ==
    /\ pc = "eval"
    /\ \E a \in {"Agent A", "Agent B"} :
          FailedBothAttempts(turn, a) /\ last_valid[a] # None

\* the most recent valid entry of agent a meets the threshold
LastValidSatisfied(a) ==
    /\ last_valid[a] # None
    /\ Get(last_valid[a]).satisfaction # None
    /\ Get(Get(last_valid[a]).satisfaction) >= min_satisfaction

\* C20 as stated: if an agent fails both attempts in a round but has a valid
\* entry from an earlier round, the termination predicate evaluates that agent
\* with its older valid entry, so the stability counter can still increase in
\* that round.
C20_OlderValidEntryEvaluated ==
    [][StaleAgentInRound =>
          stable_count' =
             IF LastValidSatisfied("Agent A") /\ LastValidSatisfied("Agent B")
             THEN stable_count + 1 ELSE 0]_vars

\* C20: if an agent fails both attempts in a round, the termination predicate
\* evaluates that agent by its latest Transcript entry, which is the failed
\* one: the agent has no satisfaction in that round and the stability counter
\* is reset to zero, even when the agent holds a valid entry from an earlier
\* round that meets the threshold.
C20_FailedRoundResetsDespiteOlderEntry ==
    [][StaleAgentInRound =>
          /\ \E a \in {"Agent A", "Agent B"} :
                /\ FailedBothAttempts(turn, a)
                /\ GetSatisfaction(LatestEntry(transcript, a)) = None
          /\ stable_count' = 0
          /\ UNCHANGED last_valid]_vars

\* round 2 was evaluated with Agent A failed twice in it: both agents' most
\* recent valid entries meet the threshold, and the counter is back to zero
C20_Witness ==
    /\ pc = "loop"
    /\ turn = 2
    /\ FailedBothAttempts(2, "Agent A")
    /\ LastValidSatisfied("Agent A")
    /\ LastValidSatisfied("Agent B")
    /\ stable_count = 0

(* ============= properties of _summarize_and_trim_context =============== *)

\* the number of entries of the recent tail: N, or all of Context if shorter
TailLen ==
    IF summary_call.summary_keep_last < Len(summary_call.context)
    THEN summary_call.summary_keep_last ELSE Len(summary_call.context)

\* the entries older than the tail
OlderLen == Len(summary_call.context) - TailLen

\* the points the i-th entry of Context gives: none for a parse-error entry,
\* its key points, or its reply text when it has no key point
PointsGiven(i) ==
    LET entry == summary_call.context[i]
    IN  IF entry.parse_error # None THEN <<>>
        ELSE LET data == Get(entry.parsed)
                 kp == data["key_points"].l
             IN  IF kp # <<>> THEN [j \in 1..Len(kp) |-> kp[j].s]
                 ELSE IF data["reply_zh_tw"].s # "" THEN <<data["reply_zh_tw"].s>>
                 ELSE <<>>

RECURSIVE PointsOfFirst(_)
\* the points of the first n entries of Context, in original order
PointsOfFirst(n) == IF n = 0 THEN <<>> ELSE PointsOfFirst(n - 1) \o PointsGiven(n)

\* C21: _summarize_and_trim_context returns as recent tail the last N Context
\* entries in order, and builds the summary from the entries older than the
\* tail only: walking them in original order, skipping parse-error entries,
\* collecting each entry's key points (or its reply text when it has no key
\* points), then keeping exactly the last M collected points in original
\* order, one bulleted line each; when there is no older entry or no point was
\* collected, no summary is returned.
C21_SummaryOfOlderEntries ==
    summary_call.pc = "returned" =>
        LET ctx == summary_call.context
            M == summary_call.summary_max_points
            points == PointsOfFirst(OlderLen)
            kept == IF M < Len(points) THEN M ELSE Len(points)
        IN  /\ Len(summary_call.recent) = TailLen
            /\ \A i \in 1..TailLen : summary_call.recent[i] = ctx[OlderLen + i]
            /\ (OlderLen = 0 \/ points = <<>>) <=> summary_call.summary = None
            /\ summary_call.summary # None =>
                  /\ Len(Get(summary_call.summary)) = kept
                  /\ \A i \in 1..kept :
                        Get(summary_call.summary)[i] =
                           Fmt("- ", points[Len(points) - kept + i])

\* more points were collected than M, past a parse-error entry, and the tail
\* is not empty
C21_Witness ==
    /\ summary_call.pc = "returned"
    /\ TailLen > 0
    /\ Len(PointsOfFirst(OlderLen)) > summary_call.summary_max_points
    /\ \E i \in 1..OlderLen : summary_call.context[i].parse_error # None
    /\ summary_call.summary # None

\* the prompt in flight contains the initial user prompt
HasInitialPrompt ==
    \E i \in 1..Len(messages) : messages[i].kind = "initial_user_prompt"

\* C22: the initial user prompt appears in a prompt if and only if Context is
\* empty when the prompt is built, which happens only during the very first
\* turn of the run (Agent A's attempts in round 1); every prompt built after
\* the first turn has completed renders the recent Context tail instead and
\* does not contain the initial user prompt, for every configured recent-tail
\* size.
C22_InitialPromptOnlyFirstTurn ==
    pc = "chat" =>
        /\ HasInitialPrompt <=> context = <<>>
        /\ context = <<>> => (turn = 1 /\ AgentName = "Agent A")
        /\ ~(turn = 1 /\ AgentName = "Agent A") =>
              (RenderedEntries # <<>> /\ ~HasInitialPrompt)

(* ============ properties of the lines OllamaClient.chat reads ========== *)

\* this step consumes one line of the response
ConsumesLine == Len(chat'.stream) = Len(chat.stream) + 1

\* the line this step consumes
Consumed == chat'.stream[Len(chat'.stream)]

\* line, as received, is empty
ReceivedEmpty(line) == line.kind = "empty" /\ ~line.prefixed

\* line is the end-of-stream sentinel of the fallback dialect: "data: [DONE]"
ReceivedSentinel(line) == line.kind = "sentinel" /\ line.prefixed

\* what json.loads is given: the line, without its "data:" prefix under the
\* fallback dialect
TextDecoded(line, using_openai) ==
    IF using_openai THEN Line(FALSE, line.kind, line.data) ELSE line

\* json.loads rejects it: it is not JSON, or it still has its prefix
Undecodable(text) == text.kind # "json" \/ text.prefixed

\* text is a record with no error field
PlainRecord(text) ==
    /\ ~Undecodable(text)
    /\ text.data.shape = "dict"
    /\ text.data.error = None

\* C23: a non-empty received line that fails to decode is appended to the
\* raw-line list, adds nothing to the aggregated text, triggers no callback,
\* and does not end or fail the call: consumption continues with the next
\* line. Empty lines are skipped and are not recorded in the raw-line list.
C23_UndecodableLineKept ==
    [][ConsumesLine =>
          LET text == TextDecoded(Consumed, chat.using_openai)
          IN  /\ ReceivedEmpty(Consumed) =>
                    chat' = [chat EXCEPT !.stream = Append(@, Consumed)]
              /\ (/\ ~ReceivedEmpty(Consumed)
                  /\ ~(chat.using_openai /\ ReceivedSentinel(Consumed))
                  /\ Undecodable(text)) =>
                    chat' = [chat EXCEPT !.stream = Append(@, Consumed),
                                         !.raw_lines = Append(@, text)]]_vars

\* under the fallback dialect a bare "data:" line and a line that is not JSON
\* were read, then a fragment: two raw lines precede the fragment's
C23_Witness ==
    /\ chat.using_openai
    /\ chat.pc = "stream"
    /\ Len(chat.stream) = 3
    /\ chat.stream[1] = BarePrefixLine
    /\ chat.stream[2] = GarbageLine
    /\ Len(chat.raw_lines) = 3
    /\ chat.full_text # EmptyStr

\* C24: under either dialect, the first decoded record containing an error
\* field makes the call fail immediately with that field's value: the fragment
\* of that record is not aggregated, no callback is invoked at or after that
\* record, no later line is consumed, and no result is returned; callbacks
\* already made for earlier fragments are not undone.
C24_ErrorRecordFailsCall ==
    /\ [][ConsumesLine =>
            LET text == TextDecoded(Consumed, chat.using_openai)
            IN  (/\ ~(chat.using_openai /\ ReceivedSentinel(Consumed))
                 /\ ~Undecodable(text)
                 /\ text.data.shape = "dict"
                 /\ text.data.error # None) =>
                   /\ chat'.pc = "raised"
                   /\ chat'.exc = "RuntimeError"
                   /\ chat'.exc_arg = text.data.error
                   /\ chat'.full_text = chat.full_text
                   /\ chat'.callbacks = chat.callbacks]_vars
    /\ [][chat.pc = "raised" => UNCHANGED vars]_vars

\* under the fallback dialect, the call failed on an error record after one
\* fragment had been passed to the callback
C24_Witness ==
    /\ chat.using_openai
    /\ chat.pc = "raised"
    /\ chat.exc = "RuntimeError"
    /\ chat.exc_arg = Some("boom")
    /\ Len(chat.callbacks) = 1
    /\ Len(chat.stream) = 2

\* C25: under the primary dialect a record with the done flag set ends
\* consumption after that record's own fragment has been aggregated, and no
\* later line is recorded, aggregated or passed to the callback; under the
\* fallback dialect the end-of-stream sentinel ends consumption without error,
\* the sentinel itself is not recorded in the raw-line list, and a done flag has
\* no effect; in both cases the call returns normally.
C25_StreamTermination ==
    /\ [][ConsumesLine =>
            LET text == TextDecoded(Consumed, chat.using_openai)
                fragment == FragmentOf(Consumed, chat.using_openai)
            IN  /\ (~chat.using_openai /\ PlainRecord(text) /\ text.data.done) =>
                      /\ chat'.pc = "returned"
                      /\ chat'.exc = ""
                      /\ chat'.full_text = chat.full_text \o fragment
                      /\ chat'.raw_lines = Append(chat.raw_lines, text)
                /\ (chat.using_openai /\ ReceivedSentinel(Consumed)) =>
                      chat' = [chat EXCEPT !.stream = Append(@, Consumed),
                                           !.pc = "returned"]
                /\ (chat.using_openai /\ PlainRecord(text) /\ text.data.done) =>
                      /\ chat'.pc = "stream"
                      /\ chat'.full_text = chat.full_text \o fragment]_vars
    /\ [][chat.pc = "returned" => UNCHANGED vars]_vars

\* the primary dialect's call returned on a done record whose fragment is the
\* end of the text
C25_Witness ==
    /\ ~chat.using_openai
    /\ chat.pc = "returned"
    /\ chat.stream # <<>>
    /\ chat.stream[Len(chat.stream)] = OllamaLine(<<"c">>, TRUE)
    /\ chat.full_text = <<"a", "b", "c">>

(* ================= properties of the transcript file =================== *)

\* run is over: it returned, or an exception left it
RunEnded == pc \in {"done", "raised"}

\* the file holds one record per Transcript entry, in Transcript order
FileIsTranscript ==
    /\ file # None
    /\ Len(Get(file)) = Len(transcript)
    /\ \A i \in 1..Len(transcript) :
          Get(file)[i] = [json |-> transcript[i], newline |-> TRUE]

\* C26 as stated: at the end of every run, however the run ends, the complete
\* Transcript is written to storage exactly once, as one record per Transcript
\* entry in Transcript order.
C26_WrittenHoweverRunEnds ==
    RunEnded => (writes = 1 /\ FileIsTranscript)

\* C26, amended: a run that leaves its loop, by stability or by budget
\* exhaustion, writes the complete Transcript exactly once, as one record per
\* Transcript entry in Transcript order, after the last agent turn and before
\* the final report is printed, and writing it changes neither Transcript nor
\* Context; a run that an exception ends writes no transcript at all.
C26_WrittenOnceUnlessRaised ==
    /\ [](/\ writes <= 1
          /\ pc = "done" => (writes = 1 /\ FileIsTranscript)
          /\ pc = "raised" => (writes = 0 /\ file = None)
          /\ report # None => file # None)
    /\ [][writes' # writes =>
             /\ pc = "after_loop"
             /\ report = None /\ report' = None
             /\ UNCHANGED <<transcript, context>>]_vars
    /\ [][file # None => UNCHANGED <<file, transcript, context, calls, turn>>]_vars

\* a run of two rounds returned: the file holds its entries, a failed one
\* among them
C26_Witness ==
    /\ pc = "done"
    /\ turn = 2
    /\ writes = 1
    /\ FileIsTranscript
    /\ \E i \in 1..Len(transcript) : Failed(transcript[i])

====
